---- MODULE Spec2Model ----
(***************************************************************************)
(* A model of paper-fetcher (src/paper_fetcher/fetch_papers.py): the       *)
(* affiliation classifier, the publication-date and author extraction of   *)
(* one PubmedArticle node, the record assembly, the CSV writer and the     *)
(* search-then-fetch pipeline.                                             *)
(*                                                                         *)
(* Python strings are sequences of one-character strings, so that          *)
(* lower(), strip(), "in", join, split and repr are computed character by  *)
(* character.                                                              *)
(***************************************************************************)
EXTENDS Integers, Sequences, FiniteSets, TLC

VARIABLES
    pc,                    \* position of the operation under way
    affiliation, verdict,  \* is_non_academic: argument and returned value
    article,               \* the PubmedArticle node handed to the extractors
    date,                  \* extract_publication_date: returned value
    idx,                   \* process_author_data: authors iterated so far
    non_academic_authors,  \* process_author_data: local list
    company_affiliations,  \* process_author_data: local set
    email_list,            \* process_author_data: local list
    author_data,           \* process_author_data: returned tuple
    record,                \* parse_paper_data: returned dict
    papers, file, stdout,  \* save_to_csv: argument, rows written, lines printed
    run                    \* the pipeline: one record of state per observed run

vars == <<pc, affiliation, verdict, article, date, idx, non_academic_authors,
          company_affiliations, email_list, author_data, record, papers, file,
          stdout, run>>

-----------------------------------------------------------------------------
(* Bounds of the checked inputs.                                           *)

MaxFrags == 2      \* text fragments concatenated into one affiliation string
MaxAuthors == 2    \* Author entries in one AuthorList
MaxPapers == 2     \* Records handed to save_to_csv
MaxIds == 2        \* identifiers in one search answer
MaxDocs == 2       \* PubmedArticle nodes in one fetch answer

-----------------------------------------------------------------------------
(* Python values.                                                          *)

\* None, told apart from every string: its only element is not a character.
None == <<"None">>

NA == <<"N","/","A">>
UnknownTitle == <<"U","n","k","n","o","w","n"," ","T","i","t","l","e">>
Sep == <<";"," ">>

UpperCase == <<"A","B","C","D","E","F","G","H","I","J","K","L","M",
               "N","O","P","Q","R","S","T","U","V","W","X","Y","Z">>
LowerCase == <<"a","b","c","d","e","f","g","h","i","j","k","l","m",
               "n","o","p","q","r","s","t","u","v","w","x","y","z">>
Digits == {"0","1","2","3","4","5","6","7","8","9"}
Letters == {UpperCase[i] : i \in 1..26} \cup {LowerCase[i] : i \in 1..26}
Whitespace == {" "}

\* str.lower() on one character.
LowerChar(c) ==
    IF \E i \in 1..26 : UpperCase[i] = c
    THEN LowerCase[CHOOSE i \in 1..26 : UpperCase[i] = c]
    ELSE c

\* str.lower()
Lower(s) == [i \in 1..Len(s) |-> LowerChar(s[i])]

\* str.strip(): leading and trailing whitespace removed.
Strip(s) ==
    LET keep == {i \in 1..Len(s) : s[i] \notin Whitespace}
    IN  IF keep = {} THEN <<>>
        ELSE LET lo == CHOOSE i \in keep : \A j \in keep : i <= j
                 hi == CHOOSE i \in keep : \A j \in keep : j <= i
             IN  SubSeq(s, lo, hi)

\* needle in haystack
In(needle, haystack) ==
    \E i \in 1..(Len(haystack) - Len(needle) + 1) :
        SubSeq(haystack, i, i + Len(needle) - 1) = needle

\* sep.join(items)
RECURSIVE JoinStr(_, _)
JoinStr(items, sep) ==
    IF Len(items) = 0 THEN <<>>
    ELSE IF Len(items) = 1 THEN items[1]
    ELSE items[1] \o sep \o JoinStr(Tail(items), sep)

\* The concatenation of a sequence of strings.
RECURSIVE Concat(_)
Concat(parts) == IF parts = <<>> THEN <<>> ELSE parts[1] \o Concat(Tail(parts))

\* All sequences over S of length at most n.
SeqUpTo(S, n) == UNION {[1..k -> S] : k \in 0..n}

-----------------------------------------------------------------------------
(* is_non_academic                                                         *)

academic_keywords == <<
    <<"u","n","i","v","e","r","s","i","t","y">>,
    <<"i","n","s","t","i","t","u","t","e">>,
    <<"c","o","l","l","e","g","e">>,
    <<"s","c","h","o","o","l">>,
    <<"d","e","p","a","r","t","m","e","n","t">>,
    <<"a","c","a","d","e","m","y">>,
    <<"f","a","c","u","l","t","y">>,
    <<"c","e","n","t","r","e"," ","f","o","r">>,
    <<"r","e","s","e","a","r","c","h"," ","c","e","n","t","e","r">>,
    <<"l","a","b","o","r","a","t","o","r","y">> >>

\* A classifier that forgets lower(): the comparison becomes case-sensitive.
is_non_academic_case_sensitive(aff) ==
    ~ \E k \in 1..Len(academic_keywords) : In(academic_keywords[k], aff)

is_non_academic(aff) ==
    LET lowered == Lower(aff)
    IN  ~ \E k \in 1..Len(academic_keywords) : In(academic_keywords[k], lowered)

\* The text fragments affiliation strings are put together from.
Fragment == {
    <<"U","n","i">>, <<"V","E","R","S","I","T","Y">>,
    <<"I","n","s","t","i","t","u","t","e">>, <<"C","o","l","l","e","g","e">>,
    <<"S","c","h","o","o","l">>, <<"D","e","p","a","r","t","m","e","n","t">>,
    <<"A","C","A","D","E","M","Y">>, <<"F","a","c","u","l","t","y">>,
    <<"c","e","n","t","r","e">>, <<" ","f","o","r">>,
    <<"R","e","s","e","a","r","c","h"," ">>, <<"C","e","n","t","e","r">>,
    <<"L","A","B","O","R","A","T","O","R","Y">>,
    <<"A","c","m","e"," ","P","h","a","r","m","a"," ","I","n","c",".">>,
    <<" ","o","f"," ">> }

AffiliationString == {Concat(fs) : fs \in SeqUpTo(Fragment, MaxFrags)}

-----------------------------------------------------------------------------
(* Values the variables hold while an operation does not use them.         *)

Idle == "idle"
NoArticle == [none |-> TRUE]

ClassifierIdle == affiliation = <<>> /\ verdict = FALSE
ExtractorIdle ==
    /\ article = NoArticle /\ date = <<>> /\ idx = 0
    /\ non_academic_authors = <<>> /\ company_affiliations = {}
    /\ email_list = <<>> /\ author_data = <<>> /\ record = NoArticle
WriterIdle == papers = <<>> /\ file = <<>> /\ stdout = <<>>
PipelineIdle == run = <<>>

classifierVars == <<affiliation, verdict>>
extractorVars == <<article, date, idx, non_academic_authors, company_affiliations,
                   email_list, author_data, record>>
writerVars == <<papers, file, stdout>>

-----------------------------------------------------------------------------
(* The classifier applied to one affiliation string.                       *)

InitClassify ==
    /\ pc = "call"
    /\ affiliation \in AffiliationString
    /\ verdict = FALSE
    /\ ExtractorIdle /\ WriterIdle /\ PipelineIdle

Classify ==
    /\ pc = "call"
    /\ verdict' = is_non_academic(affiliation)
    /\ pc' = "done"
    /\ UNCHANGED <<affiliation, extractorVars, writerVars, run>>

SpecClassify == InitClassify /\ [][Classify]_vars

-----------------------------------------------------------------------------
(* The classifier's contract.                                              *)

\* The keywords the classifier is documented to look for.
DocumentedKeyword == {
    <<"u","n","i","v","e","r","s","i","t","y">>,
    <<"i","n","s","t","i","t","u","t","e">>,
    <<"c","o","l","l","e","g","e">>,
    <<"s","c","h","o","o","l">>,
    <<"d","e","p","a","r","t","m","e","n","t">>,
    <<"a","c","a","d","e","m","y">>,
    <<"f","a","c","u","l","t","y">>,
    <<"c","e","n","t","r","e"," ","f","o","r">>,
    <<"r","e","s","e","a","r","c","h"," ","c","e","n","t","e","r">>,
    <<"l","a","b","o","r","a","t","o","r","y">> }

\* Two characters that are equal up to the case of a letter.
SameLetter(a, b) ==
    a = b \/ \E i \in 1..26 : {a, b} = {UpperCase[i], LowerCase[i]}

\* kw occurs in s at some offset, letters compared without regard to case.
OccursIgnoringCase(kw, s) ==
    \E off \in 0..(Len(s) - Len(kw)) :
        \A j \in 1..Len(kw) : SameLetter(s[off + j], kw[j])

\* C1: is_non_academic returns false for every affiliation string that contains,
\* case-insensitively, at least one of the ten academic keywords, and true for
\* every string that contains none of them (the empty string included).
C1_ClassifierVerdict ==
    pc = "done" =>
        (verdict = FALSE <=>
            \E kw \in DocumentedKeyword : OccursIgnoringCase(kw, affiliation))

\* C1's case: a string classified academic only because the comparison ignores
\* case (no keyword occurs in it as written).
C1_Witness ==
    /\ pc = "done"
    /\ verdict = FALSE
    /\ \A k \in 1..Len(academic_keywords) : ~ In(academic_keywords[k], affiliation)

-----------------------------------------------------------------------------
(* The ElementTree nodes the extractors read.                              *)

\* A child element looked up by tag: absent, or present with its text (None
\* when the element has no text).
NoElem == [present |-> FALSE, text |-> None]
Elem(t) == [present |-> TRUE, text |-> t]

\* Element.findtext(tag, default): the default when no such child exists,
\* the empty string when the child has no text, its text otherwise.
findtext(e, default) ==
    IF ~ e.present THEN default
    ELSE IF e.text = None THEN <<>>
    ELSE e.text

NoPubDate == [present |-> FALSE, Year |-> NoElem, Month |-> NoElem, Day |-> NoElem]
NoAuthorList == [present |-> FALSE, authors |-> <<>>]

MkArticle(title, pmid, pubdate, authorlist) ==
    [ArticleTitle |-> title, PMID |-> pmid, PubDate |-> pubdate,
     AuthorList |-> authorlist]

-----------------------------------------------------------------------------
(* extract_publication_date                                                *)

Space == <<" ">>

\* A composition that puts the fields in the order day, month, year.
extract_publication_date_day_first(art) ==
    LET pub_date_elem == art.PubDate
        year == findtext(pub_date_elem.Year, NA)
        month == findtext(pub_date_elem.Month, NA)
        day == findtext(pub_date_elem.Day, NA)
    IN  IF ~ pub_date_elem.present THEN NA
        ELSE IF month # NA /\ day # NA
             THEN day \o Space \o month \o Space \o year
             ELSE year

extract_publication_date(art) ==
    LET pub_date_elem == art.PubDate
        year == findtext(pub_date_elem.Year, NA)
        month == findtext(pub_date_elem.Month, NA)
        day == findtext(pub_date_elem.Day, NA)
    IN  IF ~ pub_date_elem.present THEN NA
        ELSE IF month # NA /\ day # NA
             THEN year \o Space \o month \o Space \o day
             ELSE year

\* The PubDate substructures checked: each field absent, present with a
\* value, present without text, or present with the text "N/A".
YearElem == {NoElem, Elem(<<"2","0","2","3">>), Elem(None), Elem(NA)}
MonthElem == {NoElem, Elem(<<"F","e","b">>), Elem(None), Elem(NA)}
DayElem == {NoElem, Elem(<<"1","5">>), Elem(None), Elem(NA)}

PubDateElem ==
    {NoPubDate} \cup
    {[present |-> TRUE, Year |-> y, Month |-> m, Day |-> d] :
        y \in YearElem, m \in MonthElem, d \in DayElem}

InitDate ==
    /\ pc = "call"
    /\ article \in {MkArticle(NoElem, NoElem, pd, NoAuthorList) : pd \in PubDateElem}
    /\ date = <<>> /\ idx = 0
    /\ non_academic_authors = <<>> /\ company_affiliations = {}
    /\ email_list = <<>> /\ author_data = <<>> /\ record = NoArticle
    /\ ClassifierIdle /\ WriterIdle /\ PipelineIdle

ExtractDate ==
    /\ pc = "call"
    /\ date' = extract_publication_date(article)
    /\ pc' = "done"
    /\ UNCHANGED <<classifierVars, article, idx, non_academic_authors,
                   company_affiliations, email_list, author_data, record,
                   writerVars, run>>

SpecDate == InitDate /\ [][ExtractDate]_vars

-----------------------------------------------------------------------------
(* The date extractor's contract.                                          *)

\* The value a present element carries: its text, empty when it has none.
Value(e) == IF e.text = None THEN <<>> ELSE e.text

AllThreePresent ==
    /\ article.PubDate.present
    /\ article.PubDate.Year.present
    /\ article.PubDate.Month.present
    /\ article.PubDate.Day.present

YearMonthDay ==
    Value(article.PubDate.Year) \o <<" ">> \o Value(article.PubDate.Month)
        \o <<" ">> \o Value(article.PubDate.Day)

\* C2, as claimed: whenever Year, Month and Day are all present in the PubDate,
\* the returned date is "YEAR MONTH DAY".
C2_AllPresentAsClaimed ==
    (pc = "done" /\ AllThreePresent) => date = YearMonthDay

\* C2, amended: whenever Year, Month and Day are all present and neither the
\* Month nor the Day text is the literal "N/A", the returned date is
\* "YEAR MONTH DAY".
C2_AllPresent ==
    (pc = "done" /\ AllThreePresent
        /\ Value(article.PubDate.Month) # NA /\ Value(article.PubDate.Day) # NA)
    => date = YearMonthDay

\* C2's case: the test's date, 2023 Feb 15, has been composed.
C2_Witness ==
    /\ pc = "done"
    /\ AllThreePresent
    /\ date = <<"2","0","2","3"," ","F","e","b"," ","1","5">>

\* The date the documented left-to-right degradation yields.
DegradedDate ==
    LET pd == article.PubDate
    IN  IF ~ pd.present \/ ~ pd.Year.present THEN NA
        ELSE IF pd.Month.present /\ pd.Day.present THEN YearMonthDay
        ELSE IF pd.Month.present
             THEN Value(pd.Year) \o <<" ">> \o Value(pd.Month)
        ELSE Value(pd.Year)

\* C3: for every combination of present and absent Year, Month and Day the
\* returned date is "YEAR MONTH DAY", else "YEAR MONTH", else the bare year,
\* else "N/A"; no month or day appears without a year before it.
C3_LeftToRightDegradation ==
    pc = "done" => date = DegradedDate

-----------------------------------------------------------------------------
(* extract_author_name                                                     *)

extract_author_name(author) ==
    LET last_name == Strip(findtext(author.LastName, <<>>))
        fore_name == Strip(findtext(author.ForeName, <<>>))
    IN  IF last_name # <<>> /\ fore_name # <<>>
        THEN fore_name \o Space \o last_name
        ELSE IF last_name # <<>> THEN last_name
        ELSE None

-----------------------------------------------------------------------------
(* re.findall(r"[a-zA-Z0-9._%+-]+@[a-zA-Z0-9.-]+\.[a-zA-Z]{2,}", text)      *)

LocalChar == Letters \cup Digits \cup {".", "_", "%", "+", "-"}
DomainChar == Letters \cup Digits \cup {".", "-"}

\* The last index of the longest run of characters of C that starts at s
\* (s - 1 when t[s] is not in C).
RunEnd(t, s, C) ==
    LET bad == {i \in s..Len(t) : t[i] \notin C}
    IN  IF bad = {} THEN Len(t)
        ELSE (CHOOSE i \in bad : \A j \in bad : i <= j) - 1

\* The last index of the pattern's match starting at s, 0 when there is none.
\* The local part is greedy and "@" is not one of its characters, so it must
\* run up to the "@"; the domain is greedy and backs off to the last "." that
\* two letters follow; the top-level segment is greedy.
MatchEnd(t, s) ==
    LET la == RunEnd(t, s, LocalChar)
        d0 == la + 2
        dEnd == RunEnd(t, d0, DomainChar)
        ks == {k \in d0..(dEnd - 1) :
                  /\ k + 3 <= Len(t)
                  /\ t[k + 1] = "."
                  /\ t[k + 2] \in Letters
                  /\ t[k + 3] \in Letters}
    IN  IF la < s \/ la + 1 > Len(t) THEN 0
        ELSE IF t[la + 1] # "@" \/ ks = {} THEN 0
        ELSE RunEnd(t, (CHOOSE k \in ks : \A j \in ks : j <= k) + 2, Letters)

\* The non-overlapping matches, leftmost first, scanning from pos.
RECURSIVE FindAllFrom(_, _)
FindAllFrom(t, pos) ==
    LET starts == {s \in pos..Len(t) : MatchEnd(t, s) # 0}
    IN  IF starts = {} THEN <<>>
        ELSE LET s == CHOOSE i \in starts : \A j \in starts : i <= j
                 e == MatchEnd(t, s)
             IN  <<SubSeq(t, s, e)>> \o FindAllFrom(t, e + 1)

findall_email(t) == FindAllFrom(t, 1)

-----------------------------------------------------------------------------
(* process_author_data                                                     *)

\* The function's locals as it enters the loop.
pad_locals == [authors |-> <<>>, affiliations |-> {}, emails |-> <<>>]

\* What the function returns when the article has no AuthorList.
absent_author_data_empty == <<<<>>, <<>>, NA>>

absent_author_data == <<<<NA>>, <<NA>>, NA>>

\* A loop body that skips the classifier and keeps every affiliation.
pad_affiliation_unclassified(acc, name, info) ==
    LET aff == Strip(findtext(info, <<>>))
    IN  IF aff = <<>> THEN acc
        ELSE [authors |-> Append(acc.authors, name),
              affiliations |-> acc.affiliations \cup {aff},
              emails |-> acc.emails \o findall_email(aff)]

\* One AffiliationInfo of a named author: the inner loop's body.
pad_affiliation(acc, name, info) ==
    LET aff == Strip(findtext(info, <<>>))
    IN  IF aff = <<>> THEN acc
        ELSE IF is_non_academic(aff)
        THEN [authors |-> Append(acc.authors, name),
              affiliations |-> acc.affiliations \cup {aff},
              emails |-> acc.emails \o findall_email(aff)]
        ELSE [acc EXCEPT !.emails = acc.emails \o findall_email(aff)]

RECURSIVE pad_affiliations(_, _, _)
pad_affiliations(acc, name, infos) ==
    IF infos = <<>> THEN acc
    ELSE pad_affiliations(pad_affiliation(acc, name, infos[1]), name, Tail(infos))

\* One Author entry: the outer loop's body.
pad_author(acc, author) ==
    LET name == extract_author_name(author)
    IN  IF name = None THEN acc
        ELSE pad_affiliations(acc, name, author.AffiliationInfo)

RECURSIVE pad_authors(_, _)
pad_authors(acc, authors) ==
    IF authors = <<>> THEN acc
    ELSE pad_authors(pad_author(acc, authors[1]), Tail(authors))

\* list(a_set): the elements once each, in an order the set's hashing decides.
ListOf(S) ==
    {f \in [1..Cardinality(S) -> S] : \A x \in S : \E i \in DOMAIN f : f[i] = x}

\* The returned tuple, given the order list() gave the affiliations.
pad_return(acc, order) ==
    << IF acc.authors # <<>> THEN acc.authors ELSE <<NA>>,
       IF order # <<>> THEN order ELSE <<NA>>,
       IF acc.emails # <<>> THEN JoinStr(acc.emails, Sep) ELSE NA >>

\* The values process_author_data may return for an article.
process_author_data(art) ==
    IF ~ art.AuthorList.present THEN {absent_author_data}
    ELSE LET acc == pad_authors(pad_locals, art.AuthorList.authors)
         IN  {pad_return(acc, order) : order \in ListOf(acc.affiliations)}

-----------------------------------------------------------------------------
(* The author lists checked.                                               *)

Smith == <<"S","m","i","t","h">>
Jane == <<"J","a","n","e">>
AcmePharma == <<"A","c","m","e"," ","P","h","a","r","m","a"," ","I","n","c",".">>
StateUniversity ==
    <<"S","t","a","t","e"," ","U","n","i","v","e","r","s","i","t","y">>
\* A company's address with surrounding whitespace and an e-mail address.
BetaLabs ==
    <<" ","B","e","t","a"," ","L","a","b","s",","," ","i","n","f","o","@","b",
      "e","t","a",".","c","o",".","u","k"," ">>

LastNameElem == {NoElem, Elem(Smith)}
ForeNameElem == {NoElem, Elem(Jane), Elem(<<" ">>)}

\* The AffiliationInfo children of one Author, each given by its Affiliation
\* child: none, one, an AffiliationInfo without Affiliation, two different,
\* the same one twice, academic and company mixed.
AffiliationInfoList == {
    <<>>,
    <<Elem(AcmePharma)>>,
    <<Elem(StateUniversity)>>,
    <<NoElem>>,
    <<Elem(AcmePharma), Elem(StateUniversity)>>,
    <<Elem(AcmePharma), Elem(BetaLabs)>>,
    <<Elem(AcmePharma), Elem(AcmePharma)>>,
    <<Elem(StateUniversity), Elem(BetaLabs)>> }

AuthorEntry ==
    [LastName : LastNameElem, ForeName : ForeNameElem,
     AffiliationInfo : AffiliationInfoList]

AuthorListElem ==
    {NoAuthorList} \cup
    {[present |-> TRUE, authors |-> as] : as \in SeqUpTo(AuthorEntry, MaxAuthors)}

-----------------------------------------------------------------------------
(* process_author_data, one loop iteration at a time.  The debug CSV it    *)
(* writes before returning is never read back and is left out.             *)

InitAuthors ==
    /\ pc = "call"
    /\ article \in {MkArticle(NoElem, NoElem, NoPubDate, al) : al \in AuthorListElem}
    /\ date = <<>> /\ idx = 0
    /\ non_academic_authors = <<>> /\ company_affiliations = {}
    /\ email_list = <<>> /\ author_data = <<>> /\ record = NoArticle
    /\ ClassifierIdle /\ WriterIdle /\ PipelineIdle

\* Lines 118-122: the locals are created and the AuthorList looked up.
PadBegin ==
    /\ pc = "call"
    /\ non_academic_authors' = pad_locals.authors
    /\ company_affiliations' = pad_locals.affiliations
    /\ email_list' = pad_locals.emails
    /\ IF ~ article.AuthorList.present
       THEN author_data' = absent_author_data /\ pc' = "done"
       ELSE author_data' = author_data /\ pc' = "loop"
    /\ UNCHANGED <<classifierVars, article, date, idx, record, writerVars, run>>

\* Lines 124-139: the next Author entry.
PadAuthor ==
    /\ pc = "loop"
    /\ idx < Len(article.AuthorList.authors)
    /\ LET acc == pad_author([authors |-> non_academic_authors,
                              affiliations |-> company_affiliations,
                              emails |-> email_list],
                             article.AuthorList.authors[idx + 1])
       IN  /\ non_academic_authors' = acc.authors
           /\ company_affiliations' = acc.affiliations
           /\ email_list' = acc.emails
    /\ idx' = idx + 1
    /\ UNCHANGED <<pc, classifierVars, article, date, author_data, record,
                   writerVars, run>>

\* Lines 141-152: the loop is over and the tuple is returned.
PadReturn ==
    /\ pc = "loop"
    /\ idx = Len(article.AuthorList.authors)
    /\ \E order \in ListOf(company_affiliations) :
          author_data' = pad_return([authors |-> non_academic_authors,
                                     affiliations |-> company_affiliations,
                                     emails |-> email_list], order)
    /\ pc' = "done"
    /\ UNCHANGED <<classifierVars, article, date, idx, non_academic_authors,
                   company_affiliations, email_list, record, writerVars, run>>

NextAuthors == PadBegin \/ PadAuthor \/ PadReturn

SpecAuthors == InitAuthors /\ [][NextAuthors]_vars

-----------------------------------------------------------------------------
(* The resolver's contract.                                                *)

\* C5: when the article has no AuthorList, process_author_data returns exactly
\* (["N/A"], ["N/A"], "N/A") at once: no author is iterated and nothing is
\* collected.
C5_NoAuthorList ==
    (pc = "done" /\ ~ article.AuthorList.present) =>
        /\ author_data = << <<NA>>, <<NA>>, NA >>
        /\ idx = 0
        /\ non_academic_authors = <<>>
        /\ company_affiliations = {}
        /\ email_list = <<>>

\* C5's case: the function has returned for an article without AuthorList.
C5_Witness == pc = "done" /\ ~ article.AuthorList.present /\ author_data # <<>>

Range(s) == {s[i] : i \in DOMAIN s}

\* The Author entries of the article that have a display name.
NamedAuthor ==
    {i \in DOMAIN article.AuthorList.authors :
        extract_author_name(article.AuthorList.authors[i]) # None}

\* The non-empty affiliation strings of author i that are classified
\* non-academic.
NonAcademicAffiliations(i) ==
    LET infos == article.AuthorList.authors[i].AffiliationInfo
        affs == {Strip(findtext(infos[k], <<>>)) : k \in DOMAIN infos}
    IN  {aff \in affs : aff # <<>> /\ is_non_academic(aff)}

\* C6: a display name is in the non-academic authors exactly when a named author
\* carrying it has at least one non-empty affiliation classified non-academic,
\* and the returned affiliations, unless the sentinel, are exactly those
\* affiliation strings, each once.
C6_AuthorsAndAffiliations ==
    (pc = "done" /\ article.AuthorList.present) =>
        /\ \A i \in NamedAuthor :
              extract_author_name(article.AuthorList.authors[i])
                    \in Range(non_academic_authors)
              <=> \E j \in NamedAuthor :
                     /\ extract_author_name(article.AuthorList.authors[j])
                          = extract_author_name(article.AuthorList.authors[i])
                     /\ NonAcademicAffiliations(j) # {}
        /\ \A n \in Range(non_academic_authors) :
              \E i \in NamedAuthor :
                  n = extract_author_name(article.AuthorList.authors[i])
        /\ author_data[1] =
              IF non_academic_authors = <<>> THEN <<NA>> ELSE non_academic_authors
        /\ author_data[2] # <<NA>> =>
              /\ Range(author_data[2])
                    = UNION {NonAcademicAffiliations(i) : i \in NamedAuthor}
              /\ Len(author_data[2]) = Cardinality(Range(author_data[2]))
        /\ author_data[2] = <<NA>> =>
              UNION {NonAcademicAffiliations(i) : i \in NamedAuthor} = {}

\* C6's case: Jane Smith with the single affiliation "Acme Pharma Inc." is
\* returned as a non-academic author with that affiliation.
C6_Witness ==
    /\ pc = "done"
    /\ article.AuthorList.present
    /\ \E i \in DOMAIN article.AuthorList.authors :
          article.AuthorList.authors[i] =
              [LastName |-> Elem(Smith), ForeName |-> Elem(Jane),
               AffiliationInfo |-> <<Elem(AcmePharma)>>]
    /\ <<"J","a","n","e"," ","S","m","i","t","h">> \in Range(author_data[1])
    /\ AcmePharma \in Range(author_data[2])

\* A name part is present when its element carries text other than whitespace.
HasPart(e) == Strip(findtext(e, <<>>)) # <<>>

\* The display name as documented: "First Last", else whichever part is
\* present, else none.
DocumentedName(author) ==
    LET last_name == Strip(findtext(author.LastName, <<>>))
        fore_name == Strip(findtext(author.ForeName, <<>>))
    IN  IF last_name # <<>> /\ fore_name # <<>> THEN fore_name \o <<" ">> \o last_name
        ELSE IF last_name # <<>> THEN last_name
        ELSE IF fore_name # <<>> THEN fore_name
        ELSE None

\* C10: extract_author_name yields "First Last", else the single present part,
\* else no name; an author is left out of the authors, affiliations and e-mail
\* outputs exactly when neither name part is present.
C10_DisplayName ==
    (pc = "done" /\ article.AuthorList.present) =>
        \A i \in DOMAIN article.AuthorList.authors :
            LET author == article.AuthorList.authors[i]
                infos == author.AffiliationInfo
            IN  /\ extract_author_name(author) = DocumentedName(author)
                /\ (HasPart(author.LastName) \/ HasPart(author.ForeName)) =>
                      \A k \in DOMAIN infos :
                          LET aff == Strip(findtext(infos[k], <<>>))
                          IN  /\ Range(findall_email(aff)) \subseteq Range(email_list)
                              /\ (aff # <<>> /\ is_non_academic(aff)) =>
                                    /\ DocumentedName(author)
                                          \in Range(non_academic_authors)
                                    /\ aff \in company_affiliations

-----------------------------------------------------------------------------
(* parse_paper_data                                                        *)

K_PubmedID == <<"P","u","b","m","e","d","I","D">>
K_Title == <<"T","i","t","l","e">>
K_PublicationDate ==
    <<"P","u","b","l","i","c","a","t","i","o","n"," ","D","a","t","e">>
K_NonAcademicAuthors ==
    <<"N","o","n","-","a","c","a","d","e","m","i","c"," ","A","u","t","h","o",
      "r","(","s",")">>
K_CompanyAffiliations ==
    <<"C","o","m","p","a","n","y"," ","A","f","f","i","l","i","a","t","i","o",
      "n","(","s",")">>
K_CorrespondingAuthorEmail ==
    <<"C","o","r","r","e","s","p","o","n","d","i","n","g"," ","A","u","t","h",
      "o","r"," ","E","m","a","i","l">>

\* The keys of the returned dict, in insertion order.
RecordKeys == <<K_PubmedID, K_Title, K_PublicationDate, K_NonAcademicAuthors,
                K_CompanyAffiliations, K_CorrespondingAuthorEmail>>

MkRecord(pmid, title, pubdate, authors, affiliations, email) ==
    [k \in {RecordKeys[i] : i \in 1..6} |->
        CASE k = K_PubmedID -> pmid
          [] k = K_Title -> title
          [] k = K_PublicationDate -> pubdate
          [] k = K_NonAcademicAuthors -> authors
          [] k = K_CompanyAffiliations -> affiliations
          [] OTHER -> email]

\* The dicts parse_paper_data may return for an article: the title is the
\* ArticleTitle element's text attribute (None when the element has no text),
\* and process_author_data is called once for each of the last three fields.
parse_paper_data(art) ==
    LET title == IF art.ArticleTitle.present THEN art.ArticleTitle.text
                 ELSE UnknownTitle
    IN  {MkRecord(findtext(art.PMID, NA), title, extract_publication_date(art),
                  a1[1], a2[2], a3[3]) :
            a1 \in process_author_data(art),
            a2 \in process_author_data(art),
            a3 \in process_author_data(art)}

GeneTherapy == <<"G","e","n","e"," ","t","h","e","r","a","p","y">>
Pmid36512345 == <<"3","6","5","1","2","3","4","5">>

TitleElem == {NoElem, Elem(None), Elem(GeneTherapy)}
PMIDElem == {NoElem, Elem(None), Elem(Pmid36512345)}
ParsedPubDate == {
    NoPubDate,
    [present |-> TRUE, Year |-> Elem(<<"2","0","2","3">>),
     Month |-> Elem(<<"F","e","b">>), Day |-> Elem(<<"1","5">>)],
    [present |-> TRUE, Year |-> Elem(<<"2","0","2","3">>),
     Month |-> NoElem, Day |-> NoElem] }
ParsedAuthorList ==
    {NoAuthorList} \cup
    {[present |-> TRUE, authors |-> as] : as \in SeqUpTo(AuthorEntry, 1)}

\* The article nodes parse_paper_data is checked on, however incomplete.
ArticleNode ==
    {MkArticle(t, p, d, al) :
        t \in TitleElem, p \in PMIDElem, d \in ParsedPubDate, al \in ParsedAuthorList}

InitParse ==
    /\ pc = "call"
    /\ article \in ArticleNode
    /\ date = <<>> /\ idx = 0
    /\ non_academic_authors = <<>> /\ company_affiliations = {}
    /\ email_list = <<>> /\ author_data = <<>> /\ record = NoArticle
    /\ ClassifierIdle /\ WriterIdle /\ PipelineIdle

ParsePaperData ==
    /\ pc = "call"
    /\ record' \in parse_paper_data(article)
    /\ pc' = "done"
    /\ UNCHANGED <<classifierVars, article, date, idx, non_academic_authors,
                   company_affiliations, email_list, author_data, writerVars, run>>

SpecParse == InitParse /\ [][ParsePaperData]_vars

\* C4: every Record has exactly the six named fields, its four string fields are
\* non-null strings and its two list-valued fields are non-empty sequences,
\* whatever the article node lacks.
C4_RecordShape ==
    pc = "done" =>
        /\ DOMAIN record = {RecordKeys[i] : i \in 1..6}
        /\ Cardinality(DOMAIN record) = 6
        /\ record[K_PubmedID] # None
        /\ record[K_Title] # None
        /\ record[K_PublicationDate] # None
        /\ record[K_CorrespondingAuthorEmail] # None
        /\ record[K_NonAcademicAuthors] # <<>>
        /\ record[K_CompanyAffiliations] # <<>>

-----------------------------------------------------------------------------
(* save_to_csv.  The table is held as csv.reader returns it: a sequence of  *)
(* rows, each a sequence of cell strings; the csv module's own quoting of   *)
(* a cell is undone by its reader and is not modelled.                      *)

\* repr() of a string without control characters: single quotes unless the
\* string holds a single quote and no double quote; the quote character and
\* the backslash are escaped.
PyRepr(s) ==
    LET chars == {s[i] : i \in DOMAIN s}
        quote == IF "'" \in chars /\ "\"" \notin chars THEN "\"" ELSE "'"
        esc(c) == IF c = "\\" \/ c = quote THEN <<"\\", c>> ELSE <<c>>
    IN  <<quote>> \o Concat([i \in DOMAIN s |-> esc(s[i])]) \o <<quote>>

\* str() of a list of strings.
PyStrList(l) ==
    <<"[">> \o JoinStr([i \in DOMAIN l |-> PyRepr(l[i])], <<",", " ">>) \o <<"]">>

ListKeys == {K_NonAcademicAuthors, K_CompanyAffiliations}

\* The cell csv.writer writes for a value: None as the empty string, a
\* string as it is, anything else through str().
Cell(k, v) ==
    IF k \in ListKeys THEN PyStrList(v)
    ELSE IF v = None THEN <<>>
    ELSE v

\* writeheader() and writerows(papers), the field names being papers[0].keys().
csv_rows(ps) ==
    <<RecordKeys>> \o
    [i \in DOMAIN ps |-> [j \in 1..6 |-> Cell(RecordKeys[j], ps[i][RecordKeys[j]])]]

\* The articles whose records are handed to the writer and returned by the
\* fetch service: a complete one, an empty one, and two with several
\* affiliations.
SampleArticle == {
    MkArticle(Elem(GeneTherapy), Elem(Pmid36512345),
              [present |-> TRUE, Year |-> Elem(<<"2","0","2","3">>),
               Month |-> Elem(<<"F","e","b">>), Day |-> Elem(<<"1","5">>)],
              [present |-> TRUE, authors |-> <<
                  [LastName |-> Elem(Smith), ForeName |-> Elem(Jane),
                   AffiliationInfo |-> <<Elem(AcmePharma)>>] >>]),
    MkArticle(NoElem, NoElem, NoPubDate, NoAuthorList),
    MkArticle(Elem(GeneTherapy), Elem(Pmid36512345), NoPubDate,
              [present |-> TRUE, authors |-> <<
                  [LastName |-> Elem(Smith), ForeName |-> Elem(Jane),
                   AffiliationInfo |-> <<Elem(AcmePharma), Elem(BetaLabs)>>],
                  [LastName |-> Elem(Smith), ForeName |-> NoElem,
                   AffiliationInfo |-> <<Elem(StateUniversity)>>] >>]),
    MkArticle(Elem(None), Elem(Pmid36512345), NoPubDate,
              [present |-> TRUE, authors |-> <<
                  [LastName |-> Elem(Smith), ForeName |-> NoElem,
                   AffiliationInfo |-> <<Elem(StateUniversity), Elem(BetaLabs)>>] >>]) }

SampleRecord == UNION {parse_paper_data(a) : a \in SampleArticle}

InitCsv ==
    /\ pc = "call"
    /\ papers \in SeqUpTo(SampleRecord, MaxPapers)
    /\ file = <<>>
    /\ stdout = <<>>
    /\ ClassifierIdle /\ ExtractorIdle /\ PipelineIdle

\* Lines 157-159: nothing to save.
SaveNothing ==
    /\ pc = "call"
    /\ papers = <<>>
    /\ stdout' = <<"No data available to save.">>
    /\ pc' = "done"
    /\ UNCHANGED <<classifierVars, extractorVars, papers, file, run>>

\* Lines 161-166: the file is opened and written.
SaveWrite ==
    /\ pc = "call"
    /\ papers # <<>>
    /\ file' = csv_rows(papers)
    /\ stdout' = <<"Results saved">>
    /\ pc' = "done"
    /\ UNCHANGED <<classifierVars, extractorVars, papers, run>>

\* Lines 167-168: open() raises PermissionError.
SaveDenied ==
    /\ pc = "call"
    /\ papers # <<>>
    /\ stdout' = <<"ERROR: Cannot write - Permission denied.">>
    /\ pc' = "done"
    /\ UNCHANGED <<classifierVars, extractorVars, papers, file, run>>

\* Lines 169-170: open() raises another exception.
SaveError ==
    /\ pc = "call"
    /\ papers # <<>>
    /\ stdout' = <<"ERROR: Failed to save data">>
    /\ pc' = "done"
    /\ UNCHANGED <<classifierVars, extractorVars, papers, file, run>>

NextCsv == SaveNothing \/ SaveWrite \/ SaveDenied \/ SaveError

SpecCsv == InitCsv /\ [][NextCsv]_vars

\* str.split(sep)
RECURSIVE SplitStr(_, _)
SplitStr(s, sep) ==
    LET at == {i \in 1..(Len(s) - Len(sep) + 1) :
                  SubSeq(s, i, i + Len(sep) - 1) = sep}
    IN  IF at = {} THEN <<s>>
        ELSE LET i == CHOOSE x \in at : \A y \in at : x <= y
             IN  <<SubSeq(s, 1, i - 1)>>
                 \o SplitStr(SubSeq(s, i + Len(sep), Len(s)), sep)

\* C9: for N > 0 Records the table holds the header row and exactly N data rows
\* in input order, and splitting a list-valued cell on "; " gives the Record's
\* list back; for no Records nothing is written.
C9_CsvRoundTrip ==
    /\ (pc = "done" /\ papers = <<>>) => file = <<>>
    /\ (pc = "done" /\ papers # <<>> /\ stdout = <<"Results saved">>) =>
          /\ Len(file) = Len(papers) + 1
          /\ file[1] = RecordKeys
          /\ \A i \in DOMAIN papers : \A j \in 1..6 :
                IF RecordKeys[j] \in ListKeys
                THEN SplitStr(file[i + 1][j], Sep) = papers[i][RecordKeys[j]]
                ELSE papers[i][RecordKeys[j]] # None =>
                        file[i + 1][j] = papers[i][RecordKeys[j]]

-----------------------------------------------------------------------------
(* The pipeline: main, fetch_pubmed_papers and get_paper_details.  Two runs *)
(* of the program are observed side by side, so that the outcome of one    *)
(* run can be compared with the outcome of another; the runs share         *)
(* nothing.  The debug files the clients write are never read back and are *)
(* left out.                                                               *)

Runs == {1, 2}

\* An answer of the remote service: how the request ended, what the body
\* holds, and the identifiers or PubmedArticle nodes in it.
Response(kind, body, items) == [kind |-> kind, body |-> body, items |-> items]
NoResponse == Response("none", "none", <<>>)

\* requests.get raises ConnectionError, raise_for_status raises HTTPError, or
\* the service answers 200 with a body that is not JSON, JSON without
\* "esearchresult", JSON without "idlist", or JSON with an idlist.
SearchAnswer ==
    {Response("unreachable", "none", <<>>), Response("status", "none", <<>>),
     Response("ok", "not_json", <<>>), Response("ok", "no_esearchresult", <<>>),
     Response("ok", "no_idlist", <<>>)}
    \cup {Response("ok", "idlist", ids) : ids \in SeqUpTo({Pmid36512345}, MaxIds)}

\* The documents the fetch service answers with.
FetchedArticle == {
    MkArticle(Elem(GeneTherapy), Elem(Pmid36512345),
              [present |-> TRUE, Year |-> Elem(<<"2","0","2","3">>),
               Month |-> Elem(<<"F","e","b">>), Day |-> Elem(<<"1","5">>)],
              [present |-> TRUE, authors |-> <<
                  [LastName |-> Elem(Smith), ForeName |-> Elem(Jane),
                   AffiliationInfo |-> <<Elem(AcmePharma)>>] >>]),
    MkArticle(NoElem, NoElem, NoPubDate, NoAuthorList) }

\* The same for efetch: a failed request, a body that is not XML, or an XML
\* document with some PubmedArticle nodes.
FetchAnswer ==
    {Response("unreachable", "none", <<>>), Response("status", "none", <<>>),
     Response("ok", "not_xml", <<>>)}
    \cup {Response("ok", "xml", docs) : docs \in SeqUpTo(FetchedArticle, MaxDocs)}

\* A run before main is entered.
NewRun ==
    [pc |-> "start", search |-> NoResponse, pmids |-> <<>>, fetch |-> NoResponse,
     ret |-> <<>>, out |-> <<>>, searchRequests |-> 0, fetchRequests |-> 0,
     file |-> <<>>]

\* The lines the extractors print while one article is parsed.
parse_prints(art) ==
    (IF art.PubDate.present THEN <<"DEBUG: Extracting from PubDate">> ELSE <<>>)
    \o (IF art.AuthorList.present
        THEN <<"Debug data saved to debug_extracted_authors.csv",
               "Debug data saved to debug_extracted_authors.csv",
               "Debug data saved to debug_extracted_authors.csv">>
        ELSE <<>>)

RECURSIVE all_parse_prints(_)
all_parse_prints(docs) ==
    IF docs = <<>> THEN <<>>
    ELSE parse_prints(docs[1]) \o all_parse_prints(Tail(docs))

\* The lists [parse_paper_data(article) for article in docs] may evaluate to.
parse_all(docs) ==
    {f \in [DOMAIN docs -> UNION {parse_paper_data(docs[i]) : i \in DOMAIN docs}] :
        \A i \in DOMAIN docs : f[i] \in parse_paper_data(docs[i])}

\* A get_paper_details that sends its request whatever the list holds.
has_pmids_unguarded(pmids) == TRUE

\* Line 49: "if not pmids" is false.
has_pmids(pmids) == pmids # <<>>

\* Lines 47-56: get_paper_details up to its request.
get_paper_details_call(s, pmids) ==
    IF ~ has_pmids(pmids)
    THEN [s EXCEPT !.pmids = pmids,
                   !.out = Append(@, "DEBUG: No PMIDs found!"),
                   !.ret = <<>>, !.pc = "returned"]
    ELSE [s EXCEPT !.pmids = pmids,
                   !.fetchRequests = @ + 1, !.pc = "fetching"]

\* Lines 20-35: fetch_pubmed_papers once its request has ended with resp.
fetch_pubmed_papers(s, resp) ==
    IF resp.kind = "unreachable"
    THEN [s EXCEPT !.search = resp, !.ret = <<>>, !.pc = "returned",
            !.out = Append(@, "ERROR: Failed to fetch PubMed data - ConnectionError")]
    ELSE IF resp.kind = "status"
    THEN [s EXCEPT !.search = resp, !.ret = <<>>, !.pc = "returned",
            !.out = Append(@, "ERROR: Failed to fetch PubMed data - HTTPError")]
    ELSE LET logged == [s EXCEPT !.search = resp,
                          !.out = Append(@, "Debug output saved to debug_output.txt")]
         IN  IF resp.body = "not_json"
             THEN [logged EXCEPT !.pc = "raised"]
             ELSE get_paper_details_call(
                      logged, IF resp.body = "idlist" THEN resp.items ELSE <<>>)

\* Lines 57-69: get_paper_details once its request has ended with resp, the
\* articles parsed into records.
get_paper_details(s, resp, records) ==
    IF resp.kind = "unreachable"
    THEN [s EXCEPT !.fetch = resp, !.ret = <<>>, !.pc = "returned",
            !.out = Append(@, "ERROR: Failed to fetch paper details - ConnectionError")]
    ELSE IF resp.kind = "status"
    THEN [s EXCEPT !.fetch = resp, !.ret = <<>>, !.pc = "returned",
            !.out = Append(@, "ERROR: Failed to fetch paper details - HTTPError")]
    ELSE LET logged == [s EXCEPT !.fetch = resp,
                          !.out = Append(@, "DEBUG: Paper details saved to debug_paper_details.txt")]
         IN  IF resp.body = "not_xml"
             THEN [logged EXCEPT !.pc = "raised"]
             ELSE [logged EXCEPT !.out = @ \o all_parse_prints(resp.items),
                                 !.ret = records, !.pc = "returned"]

\* What save_to_csv may leave behind: the rows written and the line printed.
save_to_csv(ps) ==
    IF ps = <<>>
    THEN {[file |-> <<>>, out |-> "No data available to save."]}
    ELSE {[file |-> csv_rows(ps), out |-> "Results saved"],
          [file |-> <<>>, out |-> "ERROR: Cannot write - Permission denied."],
          [file |-> <<>>, out |-> "ERROR: Failed to save data"]}

Init ==
    /\ pc = Idle
    /\ run = [r \in Runs |-> NewRun]
    /\ ClassifierIdle /\ ExtractorIdle /\ WriterIdle

\* main calls fetch_pubmed_papers, which sends the search request.
SearchRequest(r) ==
    /\ run[r].pc = "start"
    /\ run' = [run EXCEPT ![r].pc = "searching", ![r].searchRequests = @ + 1]
    /\ UNCHANGED <<pc, classifierVars, extractorVars, writerVars>>

\* The search request ends; fetch_pubmed_papers runs on, into
\* get_paper_details, until it returns, raises or sends the fetch request.
SearchResponse(r) ==
    /\ run[r].pc = "searching"
    /\ \E resp \in SearchAnswer :
          run' = [run EXCEPT ![r] = fetch_pubmed_papers(run[r], resp)]
    /\ UNCHANGED <<pc, classifierVars, extractorVars, writerVars>>

\* The fetch request ends; get_paper_details returns or raises.
FetchResponse(r) ==
    /\ run[r].pc = "fetching"
    /\ \E resp \in FetchAnswer : \E records \in parse_all(resp.items) :
          run' = [run EXCEPT ![r] = get_paper_details(run[r], resp, records)]
    /\ UNCHANGED <<pc, classifierVars, extractorVars, writerVars>>

\* main, lines 182-184: no papers.
MainNoPapers(r) ==
    /\ run[r].pc = "returned"
    /\ run[r].ret = <<>>
    /\ run' = [run EXCEPT ![r].pc = "done",
                  ![r].out = Append(@, "ERROR: No papers found for the query.")]
    /\ UNCHANGED <<pc, classifierVars, extractorVars, writerVars>>

\* main, lines 186-187: the papers are saved to the file given with -f.
MainSave(r) ==
    /\ run[r].pc = "returned"
    /\ run[r].ret # <<>>
    /\ \E saved \in save_to_csv(run[r].ret) :
          run' = [run EXCEPT ![r].pc = "done", ![r].file = saved.file,
                             ![r].out = Append(@, saved.out)]
    /\ UNCHANGED <<pc, classifierVars, extractorVars, writerVars>>

\* main, lines 188-192: the papers are printed.
MainPrint(r) ==
    /\ run[r].pc = "returned"
    /\ run[r].ret # <<>>
    /\ run' = [run EXCEPT ![r].pc = "done",
                  ![r].out = @ \o [i \in DOMAIN run[r].ret |-> "--- Paper ---"]]
    /\ UNCHANGED <<pc, classifierVars, extractorVars, writerVars>>

Next ==
    \E r \in Runs :
        \/ SearchRequest(r)
        \/ SearchResponse(r)
        \/ FetchResponse(r)
        \/ MainNoPapers(r)
        \/ MainSave(r)
        \/ MainPrint(r)

Spec == Init /\ [][Next]_vars

-----------------------------------------------------------------------------
(* The clients' contract.                                                  *)

\* The run is over: main has returned, or an exception has left it.
Ended(r) == run[r].pc \in {"done", "raised"}

\* A request of the run failed: the service was unreachable, answered with a
\* non-success status, or sent a payload that is not what the client expects.
RequestFailed(r) ==
    \/ run[r].search.kind \in {"unreachable", "status"}
    \/ run[r].search.body \in {"not_json", "no_esearchresult", "no_idlist"}
    \/ run[r].fetch.kind \in {"unreachable", "status"}
    \/ run[r].fetch.body = "not_xml"

\* Every request of the run succeeded and the service had nothing: zero
\* identifiers, or zero documents.
AnsweredWithNothing(r) ==
    /\ ~ RequestFailed(r)
    /\ \/ run[r].search.body = "idlist" /\ run[r].search.items = <<>>
       \/ run[r].fetch.body = "xml" /\ run[r].fetch.items = <<>>

\* What the caller and the user get from a run: how it ended, the value
\* returned, the lines printed.
Outcome(r) == <<run[r].pc, run[r].ret, run[r].out>>

\* C7: no run in which a request failed ends with the same returned value and
\* the same report to the user as a run in which the service answered
\* successfully with nothing.
C7_FailureDistinctFromEmpty ==
    \A r1 \in Runs : \A r2 \in Runs :
        (Ended(r1) /\ Ended(r2) /\ RequestFailed(r1) /\ AnsweredWithNothing(r2))
            => Outcome(r1) # Outcome(r2)

\* The search request ended in a transport failure.
SearchFailed(r) == run[r].search.kind \in {"unreachable", "status"}

\* The search request succeeded and its payload was read.
SearchSucceeded(r) ==
    run[r].search.kind = "ok" /\ run[r].search.body # "not_json"

-----------------------------------------------------------------------------
(* The uniqueness of the returned author names.                            *)

\* C11: no author name occurs more than once in the non-academic authors
\* returned by process_author_data, even when one author has several
\* affiliations that are each classified non-academic.
C11_AuthorNamesUnique ==
    (pc = "done" /\ article.AuthorList.present) =>
        \A i \in DOMAIN author_data[1] : \A j \in DOMAIN author_data[1] :
            author_data[1][i] = author_data[1][j] => i = j

====
